---- MODULE Spec2Model ----
(***************************************************************************)
(* Model of the rule store (load_rules) and the categorization matcher     *)
(* (categorize_transaction) of src/categories.py.                          *)
(*                                                                         *)
(* Strings that the code only compares for equality (transaction type,     *)
(* subtype, category) are TLA+ strings.  Strings that the code lowercases  *)
(* and searches (merchant text, keyword) are sequences of characters.      *)
(*                                                                         *)
(* From src/main.py: the prefix stripping of convert_transaction_to_monarch, *)
(* the menu of interactive_select and the login loop of                    *)
(* authenticate_wealthsimple, each with its own variables and its own      *)
(* specification.                                                          *)
(***************************************************************************)
EXTENDS Integers, Sequences, FiniteSets, TLC

\* ---------------------------------------------------------------- bounds
\* Total number of rule entries (type rules plus merchant rules) in a document.
MaxRules == 2
\* Length of a merchant text.
MaxText == 2

\* ------------------------------------------------------------ value pools
\* Python's None where the other values are strings (absent subtype, no
\* fallback yet, no exception).
None == "<None>"
\* yaml.safe_load's None for an empty file, as a value comparable to mappings.
NoneDoc == [none |-> TRUE]
\* The rules variable before load_rules has returned.
NoRules == [unset |-> TRUE]
\* The call variable before the first categorize_transaction call.
NoCall == [made |-> FALSE]

\* The credit-card marker of the matcher.
CREDIT_CARD == "CREDIT_CARD"
\* Types that rules are declared for.
RuleTypes == {CREDIT_CARD, "INTEREST"}
\* Transaction types: those, and a type that no rule names.
Types == RuleTypes \cup {"DEPOSIT"}
SubTypes == {"PAYMENT", "PURCHASE"}
Categories == {"Cat1", "Cat2"}

\* Characters of merchant texts and keywords: one letter in both cases and
\* one other letter.
Chars == {"a", "A", "b"}
\* Keywords a rule document may declare (lowercase, upper-case, empty, long).
Keywords == {<<>>, <<"a">>, <<"A">>, <<"a", "b">>}

SeqsUpTo(S, n) == UNION {[1..k -> S] : k \in 0..n}

Merchants == SeqsUpTo(Chars, MaxText)

\* A type_rules entry: the subtype key may be absent (None).
TypeRule == [type : RuleTypes, subtype : SubTypes \cup {None}, category : Categories]
\* A merchant_rules entry.
MerchantRule == [keyword : Keywords, category : Categories]

\* ------------------------------------------------------- string primitives
\* str.lower() on one character.
LowerChar(c) == IF c = "A" THEN "a" ELSE IF c = "B" THEN "b" ELSE c

\* The merchant text used as it comes, not lowercased.
Lower_Identity(s) == s

\* str.lower(): every character lowered, length and order kept.
Lower(s) == [i \in 1..Len(s) |-> LowerChar(s[i])]

\* A substring test that finds no empty needle.
Contains_NonEmptyOnly(haystack, needle) ==
    /\ Len(needle) > 0
    /\ \E off \in 0..(Len(haystack) - Len(needle)) :
          \A i \in 1..Len(needle) : haystack[off + i] = needle[i]

\* `needle in haystack` for str: needle occurs as a contiguous run.
Contains(haystack, needle) ==
    \E off \in 0..(Len(haystack) - Len(needle)) :
        \A i \in 1..Len(needle) : haystack[off + i] = needle[i]

\* dict.get(key, default)
Get(d, key, default) == IF key \in DOMAIN d THEN d[key] ELSE default

\* ---------------------------------------------------------------- state
VARIABLES
    path_exists,  \* whether the rule file exists
    document,     \* what yaml.safe_load returns for the file (None when empty)
    pc,           \* "start", "loaded" or "raised"
    rules,        \* the dict returned by load_rules (NoRules before the load)
    warned,       \* whether load_rules printed the missing-file warning
    error,        \* the exception load_rules raised, or None
    call,         \* the last categorize_transaction call: arguments and result
    memo          \* some earlier call of the same run (history, for comparison)

coreVars == <<path_exists, document, pc, rules, warned, error, call, memo>>

\* convert_transaction_to_monarch, up to the categorize_transaction call.
VARIABLES
    description,  \* transaction.get('description', '')
    cleaned,      \* the merchant string handed to categorize_transaction
    cpc           \* "start" or "converted"

convVars == <<description, cleaned, cpc>>

\* interactive_select.
VARIABLES
    n_items,      \* len(items)
    cursor,       \* the line the cursor is on, 0 = All
    selected,     \* selected[0] = All, selected[1..n] = the items
    key,          \* the last key read_key returned
    mpc,          \* "menu" while the loop runs, "returned" after it
    returned      \* the list of indices returned

menuVars == <<n_items, cursor, selected, key, mpc, returned>>

\* The login loop of authenticate_wealthsimple.
VARIABLES
    username,     \* the username of the next login call
    password,     \* the password kept between iterations, or None
    otp_answer,   \* the TOTP code kept between iterations, or None
    lpc,          \* "loop", "after_loop" or "raised"
    attempts,     \* login calls made so far
    attempt,      \* the last iteration: what login was called with, what followed
    previous      \* the iteration before that

loginVars == <<username, password, otp_answer, lpc, attempts, attempt, previous>>

vars == <<coreVars, convVars, menuVars, loginVars>>

\* An iteration record before any login call.
NoAttempt == [made |-> FALSE]

\* The parts of the program that a specification leaves alone.
CoreIdle ==
    /\ path_exists = FALSE
    /\ document = NoneDoc
    /\ pc = "start"
    /\ rules = NoRules
    /\ warned = FALSE
    /\ error = None
    /\ call = NoCall
    /\ memo = NoCall

ConvIdle ==
    /\ description = <<>>
    /\ cleaned = <<>>
    /\ cpc = "start"

MenuIdle ==
    /\ n_items = 0
    /\ cursor = 0
    /\ selected = [i \in 0..0 |-> FALSE]
    /\ key = None
    /\ mpc = "menu"
    /\ returned = <<>>

LoginIdle ==
    /\ username = None
    /\ password = None
    /\ otp_answer = None
    /\ lpc = "loop"
    /\ attempts = 0
    /\ attempt = NoAttempt
    /\ previous = NoAttempt

\* ------------------------------------------------------------ rule store
\* The documents a rule file can hold: the empty document (None) or a
\* mapping with any subset of the two keys, each a list of entries.
RuleLists ==
    {p \in SeqsUpTo(TypeRule, MaxRules) \X SeqsUpTo(MerchantRule, MaxRules) :
        Len(p[1]) + Len(p[2]) <= MaxRules}

Mapping(tr, mr, keys) ==
    [k \in keys |-> IF k = "type_rules" THEN tr ELSE mr]

Documents ==
    {NoneDoc} \cup
    {Mapping(p[1], p[2], {"type_rules", "merchant_rules"}) : p \in RuleLists} \cup
    {Mapping(tr, <<>>, {"type_rules"}) : tr \in SeqsUpTo(TypeRule, MaxRules)} \cup
    {Mapping(<<>>, mr, {"merchant_rules"}) : mr \in SeqsUpTo(MerchantRule, MaxRules)} \cup
    {Mapping(<<>>, <<>>, {})}

\* load_rules without the path.exists() test: open() raises on a missing file.
load_rules_NoExistsCheck(exists, doc) ==
    IF ~exists
    THEN [raised |-> "FileNotFoundError", warning |-> FALSE, value |-> NoRules]
    ELSE IF doc = NoneDoc
    THEN [raised |-> "AttributeError", warning |-> FALSE, value |-> NoRules]
    ELSE [raised |-> None, warning |-> FALSE,
          value |-> [type_rules |-> Get(doc, "type_rules", <<>>),
                     merchant_rules |-> Get(doc, "merchant_rules", <<>>)]]

\* Outcome of load_rules: the returned dict, or the exception raised.
load_rules(exists, doc) ==
    IF ~exists
    THEN [raised |-> None, warning |-> TRUE,
          value |-> [type_rules |-> <<>>, merchant_rules |-> <<>>]]
    ELSE IF doc = NoneDoc
    THEN [raised |-> "AttributeError", warning |-> FALSE, value |-> NoRules]
    ELSE [raised |-> None, warning |-> FALSE,
          value |-> [type_rules |-> Get(doc, "type_rules", <<>>),
                     merchant_rules |-> Get(doc, "merchant_rules", <<>>)]]

\* ---------------------------------------------------------------- matcher
\* First loop of the CREDIT_CARD branch, from entry i on: the category of
\* the first exact (type, subtype) rule, or None when the loop runs out.
RECURSIVE ScanCardTypeRules(_, _, _, _)
ScanCardTypeRules(type_rules, i, tx_type, sub_type) ==
    IF i > Len(type_rules) THEN None
    ELSE LET rule == type_rules[i]
             rule_subtype == rule.subtype
         IN IF rule.type # tx_type
            THEN ScanCardTypeRules(type_rules, i + 1, tx_type, sub_type)
            ELSE IF rule_subtype # None /\ rule_subtype = sub_type
            THEN rule.category
            ELSE ScanCardTypeRules(type_rules, i + 1, tx_type, sub_type)

\* Second loop of the CREDIT_CARD branch, from entry i on.
RECURSIVE ScanMerchantRules(_, _, _)
ScanMerchantRules(merchant_rules, i, merchant_lower) ==
    IF i > Len(merchant_rules) THEN ""
    ELSE LET rule == merchant_rules[i]
         IN IF Contains(merchant_lower, rule.keyword)
            THEN rule.category
            ELSE ScanMerchantRules(merchant_rules, i + 1, merchant_lower)

\* The general loop returning at the first rule of the type, generic or exact.
RECURSIVE ScanTypeRules_GenericShortCircuit(_, _, _, _, _)
ScanTypeRules_GenericShortCircuit(type_rules, i, tx_type, sub_type, best_match) ==
    IF i > Len(type_rules) THEN ""
    ELSE LET rule == type_rules[i]
             rule_subtype == rule.subtype
         IN IF rule.type # tx_type
            THEN ScanTypeRules_GenericShortCircuit(type_rules, i + 1, tx_type,
                                                   sub_type, best_match)
            ELSE IF rule_subtype # None /\ rule_subtype = sub_type
            THEN rule.category
            ELSE IF rule_subtype = None
            THEN rule.category
            ELSE ScanTypeRules_GenericShortCircuit(type_rules, i + 1, tx_type,
                                                   sub_type, best_match)

\* The general loop without the fallback: exact matches only.
RECURSIVE ScanTypeRules_NoFallback(_, _, _, _, _)
ScanTypeRules_NoFallback(type_rules, i, tx_type, sub_type, best_match) ==
    IF i > Len(type_rules) THEN ""
    ELSE LET rule == type_rules[i]
             rule_subtype == rule.subtype
         IN IF rule.type = tx_type /\ rule_subtype # None /\ rule_subtype = sub_type
            THEN rule.category
            ELSE ScanTypeRules_NoFallback(type_rules, i + 1, tx_type, sub_type,
                                          best_match)

\* The general loop without the `best_match is None` test: the last generic
\* rule of the type is the fallback.
RECURSIVE ScanTypeRules_LastGeneric(_, _, _, _, _)
ScanTypeRules_LastGeneric(type_rules, i, tx_type, sub_type, best_match) ==
    IF i > Len(type_rules)
    THEN IF best_match # None THEN best_match ELSE ""
    ELSE LET rule == type_rules[i]
             rule_subtype == rule.subtype
         IN IF rule.type # tx_type
            THEN ScanTypeRules_LastGeneric(type_rules, i + 1, tx_type, sub_type,
                                           best_match)
            ELSE IF rule_subtype # None /\ rule_subtype = sub_type
            THEN rule.category
            ELSE IF rule_subtype = None
            THEN ScanTypeRules_LastGeneric(type_rules, i + 1, tx_type, sub_type,
                                           rule.category)
            ELSE ScanTypeRules_LastGeneric(type_rules, i + 1, tx_type, sub_type,
                                           best_match)

\* Loop of the general branch, from entry i on, with the fallback so far.
RECURSIVE ScanTypeRules(_, _, _, _, _)
ScanTypeRules(type_rules, i, tx_type, sub_type, best_match) ==
    IF i > Len(type_rules)
    THEN IF best_match # None THEN best_match ELSE ""
    ELSE LET rule == type_rules[i]
             rule_subtype == rule.subtype
         IN IF rule.type # tx_type
            THEN ScanTypeRules(type_rules, i + 1, tx_type, sub_type, best_match)
            ELSE IF rule_subtype # None /\ rule_subtype = sub_type
            THEN rule.category
            ELSE IF rule_subtype = None /\ best_match = None
            THEN ScanTypeRules(type_rules, i + 1, tx_type, sub_type, rule.category)
            ELSE ScanTypeRules(type_rules, i + 1, tx_type, sub_type, best_match)

\* The CREDIT_CARD branch with its two loops swapped: keywords first.
categorize_transaction_MerchantFirst(tx_type, sub_type, merchant, rs) ==
    LET type_rules == Get(rs, "type_rules", <<>>)
        merchant_rules == Get(rs, "merchant_rules", <<>>)
    IN IF tx_type = CREDIT_CARD
       THEN LET byKeyword == ScanMerchantRules(merchant_rules, 1, Lower(merchant))
                exact == ScanCardTypeRules(type_rules, 1, tx_type, sub_type)
            IN IF byKeyword # "" THEN byKeyword
               ELSE IF exact # None THEN exact ELSE ""
       ELSE ScanTypeRules(type_rules, 1, tx_type, sub_type, None)

\* No CREDIT_CARD branch of its own: the general loop, then the keywords.
categorize_transaction_CardFallback(tx_type, sub_type, merchant, rs) ==
    LET type_rules == Get(rs, "type_rules", <<>>)
        merchant_rules == Get(rs, "merchant_rules", <<>>)
        byType == ScanTypeRules(type_rules, 1, tx_type, sub_type, None)
    IN IF tx_type = CREDIT_CARD /\ byType = ""
       THEN ScanMerchantRules(merchant_rules, 1, Lower(merchant))
       ELSE byType

\* Keyword matching as the last resort of every type, not of CREDIT_CARD only.
categorize_transaction_MerchantForAll(tx_type, sub_type, merchant, rs) ==
    LET type_rules == Get(rs, "type_rules", <<>>)
        merchant_rules == Get(rs, "merchant_rules", <<>>)
        byType == IF tx_type = CREDIT_CARD
                  THEN ScanCardTypeRules(type_rules, 1, tx_type, sub_type)
                  ELSE ScanTypeRules(type_rules, 1, tx_type, sub_type, None)
    IN IF byType \in {None, ""}
       THEN ScanMerchantRules(merchant_rules, 1, Lower(merchant))
       ELSE byType

categorize_transaction(tx_type, sub_type, merchant, rs) ==
    LET type_rules == Get(rs, "type_rules", <<>>)
        merchant_rules == Get(rs, "merchant_rules", <<>>)
    IN IF tx_type = CREDIT_CARD
       THEN LET exact == ScanCardTypeRules(type_rules, 1, tx_type, sub_type)
            IN IF exact # None
               THEN exact
               ELSE ScanMerchantRules(merchant_rules, 1, Lower(merchant))
       ELSE ScanTypeRules(type_rules, 1, tx_type, sub_type, None)

\* ---------------------------------------------------------------- actions
Init ==
    /\ path_exists \in BOOLEAN
    /\ document \in Documents
    /\ (~path_exists => document = NoneDoc)
    /\ pc = "start"
    /\ rules = NoRules
    /\ warned = FALSE
    /\ error = None
    /\ call = NoCall
    /\ memo = NoCall
    /\ ConvIdle /\ MenuIdle /\ LoginIdle

\* load_rules(), run once at program start.
Load ==
    /\ pc = "start"
    /\ LET out == load_rules(path_exists, document)
       IN /\ pc' = IF out.raised = None THEN "loaded" ELSE "raised"
          /\ rules' = out.value
          /\ warned' = out.warning
          /\ error' = out.raised
    /\ UNCHANGED <<path_exists, document, call, memo>>
    /\ UNCHANGED <<convVars, menuVars, loginVars>>

\* The effect of one categorize_transaction(tx_type, sub_type, merchant, rules)
\* call: the category is returned, nothing else is written.
CategorizeCall(tx_type, sub_type, merchant) ==
    /\ call' = [made |-> TRUE, tx_type |-> tx_type, sub_type |-> sub_type,
                merchant |-> merchant,
                result |-> categorize_transaction(tx_type, sub_type, merchant, rules)]
    /\ UNCHANGED <<path_exists, document, pc, rules, warned, error>>
    /\ UNCHANGED <<convVars, menuVars, loginVars>>

\* convert_transaction_to_monarch: the call made for one transaction, any
\* type, subtype and merchant text.
Categorize ==
    /\ pc = "loaded"
    /\ ~call.made
    /\ \E tx_type \in Types, sub_type \in SubTypes \cup {None}, merchant \in Merchants :
          CategorizeCall(tx_type, sub_type, merchant)
    /\ UNCHANGED memo

Next == Load \/ Categorize

Spec == Init /\ [][Next]_vars

\* ------------------------------------------------------- batch of calls
\* export_transactions_csv: one call after another on the same rules, for
\* any number of transactions.  The transactions of a batch are drawn from
\* a small pool so that the same arguments come back; memo keeps one
\* earlier call of the batch, any of them.
BatchTypes == {CREDIT_CARD, "INTEREST"}
BatchSubTypes == {"PAYMENT"}
BatchMerchants == {<<"A">>, <<"b">>}

\* Whether two calls had the same arguments.
SameArguments(c, d) ==
    /\ c.tx_type = d.tx_type
    /\ c.sub_type = d.sub_type
    /\ c.merchant = d.merchant

\* memo after one more call: either the call that was the last one so far is
\* remembered, or memo is kept and notes whether a call with other arguments
\* now lies between it and the latest call.
Remember(remember) ==
    IF remember
    THEN IF call.made
         THEN [made |-> TRUE, tx_type |-> call.tx_type, sub_type |-> call.sub_type,
               merchant |-> call.merchant, result |-> call.result,
               between |-> FALSE]
         ELSE memo
    ELSE IF memo.made
         THEN [memo EXCEPT !.between = memo.between \/ ~SameArguments(memo, call)]
         ELSE memo

\* A call that consumes the matched type rule (a pop instead of a read).
ExportNext_Mutating ==
    /\ pc = "loaded"
    /\ \E tx_type \in BatchTypes, sub_type \in BatchSubTypes, merchant \in BatchMerchants :
          call' = [made |-> TRUE, tx_type |-> tx_type, sub_type |-> sub_type,
                   merchant |-> merchant,
                   result |-> categorize_transaction(tx_type, sub_type, merchant, rules)]
    /\ rules' = [rules EXCEPT !.type_rules =
                    IF Len(@) > 0 THEN Tail(@) ELSE @]
    /\ UNCHANGED <<path_exists, document, pc, warned, error>>
    /\ UNCHANGED <<convVars, menuVars, loginVars>>
    /\ \E remember \in BOOLEAN : memo' = Remember(remember)

ExportNext ==
    /\ pc = "loaded"
    /\ \E tx_type \in BatchTypes, sub_type \in BatchSubTypes, merchant \in BatchMerchants :
          CategorizeCall(tx_type, sub_type, merchant)
    /\ \E remember \in BOOLEAN : memo' = Remember(remember)

NextBatch == Load \/ ExportNext

SpecBatch == Init /\ [][NextBatch]_vars

\* ------------------------------------------------- vocabulary of the claims
\* A categorize_transaction call has returned on a loaded rule set.
Called == pc = "loaded" /\ call.made

TR == rules.type_rules
MR == rules.merchant_rules

\* Entry r is an exact rule for (t, st): same type, subtype set and equal.
IsExact(r, t, st) == r.type = t /\ r.subtype # None /\ r.subtype = st
\* Entry r is a generic (subtype-less) rule for t.
IsGeneric(r, t) == r.type = t /\ r.subtype = None

ExactIdx(t, st) == {i \in DOMAIN TR : IsExact(TR[i], t, st)}
GenericIdx(t) == {i \in DOMAIN TR : IsGeneric(TR[i], t)}

\* The least element of a non-empty set of indices: the first declared.
First(S) == CHOOSE i \in S : \A j \in S : i <= j

\* k occurs in t as a contiguous run, stated with SubSeq.
IsSubstring(k, t) ==
    \E a \in 0..Len(t) : \E b \in a..Len(t) : SubSeq(t, a + 1, b) = k

\* No upper-case letter in s.
IsLowercase(s) == \A i \in 1..Len(s) : s[i] \notin {"A", "B"}

\* The lowercase form of a text, letter by letter.
Folded(s) ==
    [i \in 1..Len(s) |->
        CASE s[i] = "A" -> "a" [] s[i] = "B" -> "b" [] OTHER -> s[i]]

\* Merchant rules whose keyword, as declared, occurs in the lowercased text.
KeywordIdx(text) == {i \in DOMAIN MR : IsSubstring(MR[i].keyword, Folded(text))}
\* Merchant rules whose keyword occurs in the text when case is ignored on
\* both sides.
KeywordIdxAnyCase(text) ==
    {i \in DOMAIN MR : IsSubstring(Folded(MR[i].keyword), Folded(text))}

\* Other merchant_rules lists to put in the place of the loaded one: none,
\* or one rule whose keyword occurs in every text.
OtherMerchantRules ==
    {<<>>} \cup {<<[keyword |-> <<>>, category |-> c]>> : c \in Categories}

\* ------------------------------------------------------------------ C1
\* C1, as stated: for EVERY type rule {T, S, C} with S set, a call with
\* (T, S) returns C, whatever else is declared.
C1_EveryExactRule ==
    Called => \A i \in ExactIdx(call.tx_type, call.sub_type) :
                  call.result = TR[i].category

\* C1, amended: a call with (T, S) returns the category of the FIRST
\* declared type rule with type T and subtype S, for every merchant text and
\* whatever generic rules or merchant rules are declared, before or after.
C1_FirstExactRule ==
    Called /\ ExactIdx(call.tx_type, call.sub_type) # {} =>
        call.result = TR[First(ExactIdx(call.tx_type, call.sub_type))].category

\* A generic rule for T is declared before the exact rule, with another
\* category, and the exact rule's category is what came back.
C1_Witness ==
    /\ Called
    /\ call.tx_type # CREDIT_CARD
    /\ call.merchant # <<>>
    /\ Len(TR) = 2
    /\ IsGeneric(TR[1], call.tx_type)
    /\ IsExact(TR[2], call.tx_type, call.sub_type)
    /\ TR[1].category # TR[2].category
    /\ call.result = TR[2].category

\* ------------------------------------------------------------------ C2
\* C2, as stated: for every type-only rule {T, C} and every transaction of
\* type T without an exact-subtype rule, the call returns C, for every T.
C2_EveryGenericRule ==
    Called /\ ExactIdx(call.tx_type, call.sub_type) = {} =>
        \A i \in GenericIdx(call.tx_type) : call.result = TR[i].category

\* C2, amended: for every type T other than CREDIT_CARD, a type-only rule
\* {T, C} that is the first type-only rule declared for T gives C to every
\* transaction of type T that has no exact-subtype rule.
C2_FirstGenericRule ==
    Called /\ call.tx_type # CREDIT_CARD
           /\ ExactIdx(call.tx_type, call.sub_type) = {} =>
        \A i \in GenericIdx(call.tx_type) :
            (\A j \in GenericIdx(call.tx_type) : i <= j) =>
                call.result = TR[i].category

\* A rule for T with another subtype stands before the type-only rule; the
\* transaction has a subtype and gets the type-only rule's category.
C2_Witness ==
    /\ Called
    /\ call.tx_type # CREDIT_CARD
    /\ call.sub_type # None
    /\ Len(TR) = 2
    /\ TR[1].type = call.tx_type
    /\ TR[1].subtype \notin {None, call.sub_type}
    /\ IsGeneric(TR[2], call.tx_type)
    /\ TR[1].category # TR[2].category
    /\ call.result = TR[2].category

\* ------------------------------------------------------------------ C3
\* C3: a CREDIT_CARD call whose subtype has an exact CREDIT_CARD type rule
\* returns a category that type_rules and the subtype alone determine (the
\* first such rule's), so it is the same for every merchant text and every
\* merchant_rules list, matching keyword or not.
C3_SubtypeRuleBeforeMerchant ==
    Called /\ call.tx_type = CREDIT_CARD
           /\ ExactIdx(CREDIT_CARD, call.sub_type) # {} =>
        /\ call.result = TR[First(ExactIdx(CREDIT_CARD, call.sub_type))].category
        /\ \A m \in Merchants : \A mr \in {MR} \cup OtherMerchantRules :
              categorize_transaction(CREDIT_CARD, call.sub_type, m,
                  [type_rules |-> TR, merchant_rules |-> mr]) = call.result

\* The subtype rule answered although a non-empty keyword matched the
\* merchant text too, with another category.
C3_Witness ==
    /\ Called
    /\ call.tx_type = CREDIT_CARD
    /\ ExactIdx(CREDIT_CARD, call.sub_type) # {}
    /\ KeywordIdx(call.merchant) # {}
    /\ MR[First(KeywordIdx(call.merchant))].keyword # <<>>
    /\ MR[First(KeywordIdx(call.merchant))].category # call.result
    /\ call.result = TR[First(ExactIdx(CREDIT_CARD, call.sub_type))].category

\* ------------------------------------------------------------------ C4
\* C4: a CREDIT_CARD call without an exact-subtype rule, on lowercase
\* keywords, returns the category of the first declared merchant rule whose
\* keyword is a substring of the lowercased merchant text, and "" when there
\* is none.
C4_FirstKeywordRule ==
    Called /\ call.tx_type = CREDIT_CARD
           /\ ExactIdx(CREDIT_CARD, call.sub_type) = {}
           /\ (\A i \in DOMAIN MR : IsLowercase(MR[i].keyword)) =>
        call.result = IF KeywordIdx(call.merchant) # {}
                      THEN MR[First(KeywordIdx(call.merchant))].category
                      ELSE ""

\* Two lowercase keywords, the first not empty, match a merchant text with
\* an upper-case letter, and the first keyword rule's category came back.
C4_Witness ==
    /\ Called
    /\ call.tx_type = CREDIT_CARD
    /\ ExactIdx(CREDIT_CARD, call.sub_type) = {}
    /\ Len(MR) = 2
    /\ MR[1].keyword # <<>>
    /\ \A i \in DOMAIN MR : IsLowercase(MR[i].keyword)
    /\ KeywordIdx(call.merchant) = {1, 2}
    /\ ~IsLowercase(call.merchant)
    /\ MR[1].category # MR[2].category
    /\ call.result = MR[1].category

\* ------------------------------------------------------------------ C5
\* C5: without a rule file load_rules returns, raising nothing, a rule set
\* with both lists empty; and on a rule set with both lists empty every
\* call returns "".
C5_MissingSourceEmptyRules ==
    /\ pc # "start" /\ ~path_exists =>
          /\ pc = "loaded"
          /\ error = None
          /\ rules = [type_rules |-> <<>>, merchant_rules |-> <<>>]
    /\ Called /\ TR = <<>> /\ MR = <<>> => call.result = ""

\* No rule file, and a CREDIT_CARD call with a subtype and a merchant text
\* came back empty.
C5_Witness ==
    /\ ~path_exists
    /\ Called
    /\ warned
    /\ call.tx_type = CREDIT_CARD
    /\ call.sub_type # None
    /\ call.merchant # <<>>
    /\ call.result = ""

\* ------------------------------------------------------------------ C6
\* C6, as stated: an existing rule source never makes load_rules raise when
\* keys are missing (the empty document included), and each missing key
\* gives the empty list.
C6_MissingKeysNoError ==
    pc # "start" /\ path_exists =>
        /\ error = None
        /\ pc = "loaded"
        /\ \A k \in {"type_rules", "merchant_rules"} :
              (document = NoneDoc \/ k \notin DOMAIN document) => rules[k] = <<>>

\* ------------------------------------------------------------------ C7
\* C7: over any sequence of calls the rule set stays what load_rules
\* returned for the rule file, and two calls with the same type, subtype
\* and merchant text return the same category, whatever ran in between.
C7_Pure ==
    /\ pc = "loaded" => rules = load_rules(path_exists, document).value
    /\ memo.made /\ call.made /\ SameArguments(memo, call)
       => memo.result = call.result

\* The same arguments came back after a call with other arguments in
\* between, on a rule set that categorizes them.
C7_Witness ==
    /\ memo.made /\ call.made
    /\ SameArguments(memo, call)
    /\ memo.between
    /\ call.result # ""
    /\ Len(TR) + Len(MR) > 0

\* ------------------------------------------------------------------ C8
\* C8, as stated: keyword matching ignores case on both sides, so a
\* CREDIT_CARD call without an exact-subtype rule returns the category of
\* the first merchant rule whose keyword equals, case ignored, a substring
\* of the merchant text, upper-case letters in the declared keyword or not.
C8_KeywordAnyCase ==
    Called /\ call.tx_type = CREDIT_CARD
           /\ ExactIdx(CREDIT_CARD, call.sub_type) = {}
           /\ KeywordIdxAnyCase(call.merchant) # {} =>
        call.result = MR[First(KeywordIdxAnyCase(call.merchant))].category

\* ------------------------------------------------------------------ C9
\* C9: a CREDIT_CARD call with no exact-subtype rule and no matching
\* merchant rule returns "", a generic CREDIT_CARD rule notwithstanding,
\* while that generic rule retyped to any other type, alone in type_rules,
\* gives its category to the same transaction of that type.
C9_NoGenericForCard ==
    Called /\ call.tx_type = CREDIT_CARD
           /\ ExactIdx(CREDIT_CARD, call.sub_type) = {}
           /\ KeywordIdx(call.merchant) = {} =>
        /\ call.result = ""
        /\ \A i \in GenericIdx(CREDIT_CARD) : \A t \in Types \ {CREDIT_CARD} :
              categorize_transaction(t, call.sub_type, call.merchant,
                  [type_rules |-> <<[TR[i] EXCEPT !.type = t]>>,
                   merchant_rules |-> MR]) = TR[i].category

\* A generic CREDIT_CARD rule is declared, the merchant rule's keyword is not
\* in the merchant text, and the call came back empty.
C9_Witness ==
    /\ Called
    /\ call.tx_type = CREDIT_CARD
    /\ call.merchant # <<>>
    /\ GenericIdx(CREDIT_CARD) # {}
    /\ ExactIdx(CREDIT_CARD, call.sub_type) = {}
    /\ Len(MR) > 0
    /\ KeywordIdx(call.merchant) = {}
    /\ call.result = ""

\* ------------------------------------------------------------------ C10
\* C10: a call of a type T other than CREDIT_CARD with no exact (T, subtype)
\* rule returns the category of the first declared generic rule for T; a
\* later generic rule for T never replaces it, and with no generic rule for
\* T the result is "" whatever generic rules other types have.
C10_FirstFallbackOnly ==
    Called /\ call.tx_type # CREDIT_CARD
           /\ ExactIdx(call.tx_type, call.sub_type) = {} =>
        call.result = IF GenericIdx(call.tx_type) # {}
                      THEN TR[First(GenericIdx(call.tx_type))].category
                      ELSE ""

\* Two generic rules for T with different categories: the first one's came
\* back.
C10_Witness ==
    /\ Called
    /\ call.tx_type # CREDIT_CARD
    /\ GenericIdx(call.tx_type) = {1, 2}
    /\ TR[1].category # TR[2].category
    /\ call.result = TR[1].category

\* ------------------------------------------------------------------ C11
\* Other merchant texts to put in the place of the one of the call.
OtherMerchants == {<<>>, <<"a">>, <<"A", "b">>}

\* C11: for a call of a type other than CREDIT_CARD the category is the same
\* whatever the merchant text and the merchant_rules list (the call repeated
\* with other texts and other lists returns the same), and with no type rule
\* of that type it is "", matching keyword or not.
C11_MerchantIrrelevant ==
    Called /\ call.tx_type # CREDIT_CARD =>
        /\ \A m \in OtherMerchants : \A mr \in {MR} \cup OtherMerchantRules :
              categorize_transaction(call.tx_type, call.sub_type, m,
                  [type_rules |-> TR, merchant_rules |-> mr]) = call.result
        /\ (\A i \in DOMAIN TR : TR[i].type # call.tx_type) => call.result = ""

\* A non-empty keyword occurs in the merchant text of a call of another type
\* than CREDIT_CARD, no type rule names that type, and the call came back
\* empty.
C11_Witness ==
    /\ Called
    /\ call.tx_type # CREDIT_CARD
    /\ Len(TR) > 0
    /\ \A i \in DOMAIN TR : TR[i].type # call.tx_type
    /\ KeywordIdx(call.merchant) # {}
    /\ MR[First(KeywordIdx(call.merchant))].keyword # <<>>
    /\ call.result = ""

\* ------------------------------------------------------------------ C16
\* C16: in a CREDIT_CARD call with no exact-subtype rule, a merchant rule
\* with the empty keyword that no matching rule precedes gives its category,
\* for every merchant text (the empty one too); the rules declared after it
\* are not reached.
C16_EmptyKeywordMatchesAll ==
    Called /\ call.tx_type = CREDIT_CARD
           /\ ExactIdx(CREDIT_CARD, call.sub_type) = {} =>
        \A i \in DOMAIN MR :
            (/\ MR[i].keyword = <<>>
             /\ \A j \in 1..(i - 1) :
                   ~IsSubstring(MR[j].keyword, Folded(call.merchant)))
            => call.result = MR[i].category

\* The empty keyword stands first, a later non-empty keyword occurs in the
\* merchant text with another category, and the first rule's category came
\* back.
C16_Witness ==
    /\ Called
    /\ call.tx_type = CREDIT_CARD
    /\ ExactIdx(CREDIT_CARD, call.sub_type) = {}
    /\ Len(MR) = 2
    /\ MR[1].keyword = <<>>
    /\ MR[2].keyword # <<>>
    /\ IsSubstring(MR[2].keyword, Folded(call.merchant))
    /\ MR[1].category # MR[2].category
    /\ call.result = MR[1].category

\* The empty keyword and the empty merchant text: the rule's category came
\* back.
C16_WitnessEmptyText ==
    /\ Called
    /\ call.tx_type = CREDIT_CARD
    /\ call.merchant = <<>>
    /\ Len(MR) > 0
    /\ MR[1].keyword = <<>>
    /\ call.result = MR[1].category

\* ------------------------------------------------------ prefix stripping
\* A description is a sequence of words: the five phrases the prefixes are
\* made of, the blank, and a word of the merchant's name.  No phrase is the
\* beginning of another one, so a description begins with a prefix, letter
\* by letter, exactly when its words begin with the prefix's words.
Words == {"(Pending)", "Credit card purchase:", "Credit card refund:",
          "Deposit:", "Withdrawal:", " ", "x"}

\* Length of a description, in words.
MaxDescription == 5

Descriptions == SeqsUpTo(Words, MaxDescription)

\* transaction.get('type', 'Unknown'), the merchant of a transaction without
\* description.
TypeName == <<"TYPE">>

prefixes_to_remove ==
    << <<"(Pending)", " ", "Credit card purchase:", " ">>,
       <<"(Pending)", " ", "Credit card refund:", " ">>,
       <<"Credit card purchase:", " ">>,
       <<"Credit card refund:", " ">>,
       <<"Deposit:", " ">>,
       <<"Withdrawal:", " ">>,
       <<"(Pending)", " ">> >>

\* str.startswith
StartsWith(text, prefix) ==
    /\ Len(prefix) <= Len(text)
    /\ \A i \in 1..Len(prefix) : text[i] = prefix[i]

\* str.strip(): the blanks at both ends removed.
RECURSIVE LStrip(_)
LStrip(text) ==
    IF text # <<>> /\ Head(text) = " " THEN LStrip(Tail(text)) ELSE text

RECURSIVE RStrip(_)
RStrip(text) ==
    IF text # <<>> /\ text[Len(text)] = " "
    THEN RStrip(SubSeq(text, 1, Len(text) - 1))
    ELSE text

Strip(text) == RStrip(LStrip(text))

\* The loop of remove_prefixes from prefix k on: the first prefix the text
\* starts with is cut off and the rest stripped; one prefix at most.
RECURSIVE RemoveFrom(_, _)
RemoveFrom(text, k) ==
    IF k > Len(prefixes_to_remove) THEN text
    ELSE LET prefix == prefixes_to_remove[k]
         IN IF StartsWith(text, prefix)
            THEN Strip(SubSeq(text, Len(prefix) + 1, Len(text)))
            ELSE RemoveFrom(text, k + 1)

remove_prefixes(text) == RemoveFrom(text, 1)

InitConvert ==
    /\ CoreIdle /\ MenuIdle /\ LoginIdle
    /\ description \in Descriptions
    /\ cleaned = <<>>
    /\ cpc = "start"

\* convert_transaction_to_monarch, from the description to the merchant
\* argument of categorize_transaction.
Convert ==
    /\ cpc = "start"
    /\ cleaned' = remove_prefixes(IF description # <<>> THEN description ELSE TypeName)
    /\ cpc' = "converted"
    /\ UNCHANGED <<description, coreVars, menuVars, loginVars>>

NextConvert == Convert

SpecConvert == InitConvert /\ [][NextConvert]_vars

\* ------------------------------------------------------------------ C12
\* C12, as stated: for every description the merchant text handed to
\* categorize_transaction starts with none of the listed prefixes.
C12_NoPrefixLeft ==
    cpc = "converted" =>
        \A k \in DOMAIN prefixes_to_remove :
            ~(/\ Len(cleaned) >= Len(prefixes_to_remove[k])
              /\ SubSeq(cleaned, 1, Len(prefixes_to_remove[k])) = prefixes_to_remove[k])

\* ------------------------------------------------------ interactive_select
\* Number of items offered.
MaxItems == 3

\* What read_key returns: the keys the loop names, and any other key.
DownKeys == {"j", "down"}
UpKeys == {"k", "up"}
ToggleKeys == {"return", "newline", " "}
ConfirmKeys == {"q", "escape"}
OtherKeys == {"x"}

\* total_lines = len(items) + 1
total_lines == n_items + 1

Min(a, b) == IF a < b THEN a ELSE b
Max(a, b) == IF a > b THEN a ELSE b

\* all(selected[1:])
AllItems(sel) == \A i \in 1..n_items : sel[i]

\* [i - 1 for i in range(from, total_lines) if selected[i]]
RECURSIVE CheckedIndices(_, _)
CheckedIndices(sel, from) ==
    IF from > n_items THEN <<>>
    ELSE (IF sel[from] THEN <<from - 1>> ELSE <<>>) \o CheckedIndices(sel, from + 1)

\* list(range(len(items)))
Range(n) == [i \in 1..n |-> i - 1]

\* The return value with the checked items only, also when there is none.
select_result_CheckedOnly(sel) == CheckedIndices(sel, 1)

\* The value interactive_select returns once the loop is left.
select_result(sel) ==
    LET indices == CheckedIndices(sel, 1)
    IN IF indices = <<>> \/ sel[0] THEN Range(n_items) ELSE indices

InitMenu ==
    /\ CoreIdle /\ ConvIdle /\ LoginIdle
    /\ n_items \in 0..MaxItems
    /\ cursor = 0
    /\ selected = [i \in 0..n_items |-> FALSE]
    /\ key = None
    /\ mpc = "menu"
    /\ returned = <<>>

\* 'j' or the down arrow.
MoveDown ==
    /\ mpc = "menu"
    /\ key' \in DownKeys
    /\ cursor' = Min(cursor + 1, total_lines - 1)
    /\ UNCHANGED <<n_items, selected, mpc, returned, coreVars, convVars, loginVars>>

\* 'k' or the up arrow.
MoveUp ==
    /\ mpc = "menu"
    /\ key' \in UpKeys
    /\ cursor' = Max(cursor - 1, 0)
    /\ UNCHANGED <<n_items, selected, mpc, returned, coreVars, convVars, loginVars>>

\* A toggle of an item that leaves the All box as it was.
Toggle_NoAllUpdate ==
    /\ mpc = "menu"
    /\ key' \in ToggleKeys
    /\ selected' = IF cursor = 0
                   THEN [i \in 0..n_items |-> ~selected[0]]
                   ELSE [selected EXCEPT ![cursor] = ~selected[cursor]]
    /\ UNCHANGED <<n_items, cursor, mpc, returned, coreVars, convVars, loginVars>>

\* Enter or space: toggle the line under the cursor.
Toggle ==
    /\ mpc = "menu"
    /\ key' \in ToggleKeys
    /\ selected' =
          IF cursor = 0
          THEN LET new_state == ~selected[0]
               IN [i \in 0..n_items |-> new_state]
          ELSE LET toggled == [selected EXCEPT ![cursor] = ~selected[cursor]]
               IN [toggled EXCEPT ![0] = AllItems(toggled)]
    /\ UNCHANGED <<n_items, cursor, mpc, returned, coreVars, convVars, loginVars>>

\* 'q' or escape: leave the loop and return.
Confirm ==
    /\ mpc = "menu"
    /\ key' \in ConfirmKeys
    /\ mpc' = "returned"
    /\ returned' = select_result(selected)
    /\ UNCHANGED <<n_items, cursor, selected, coreVars, convVars, loginVars>>

\* Any other key: read and ignored.
IgnoreKey ==
    /\ mpc = "menu"
    /\ key' \in OtherKeys
    /\ UNCHANGED <<n_items, cursor, selected, mpc, returned, coreVars, convVars, loginVars>>

NextMenu == MoveDown \/ MoveUp \/ Toggle \/ Confirm \/ IgnoreKey

SpecMenu == InitMenu /\ [][NextMenu]_vars

\* ------------------------------------------------------------------ C13
\* The individual items that are checked, as indices of items.
CheckedSet == {i - 1 : i \in {j \in 1..n_items : selected[j]}}

\* C13: once 'q' or escape has ended the loop, the returned list is in
\* ascending order and holds every index 0..n-1 when All is checked or no
\* item is checked, and exactly the checked items otherwise; with at least
\* one item it is not empty.
C13_ReturnedIndices ==
    mpc = "returned" =>
        /\ \A i \in 1..(Len(returned) - 1) : returned[i] < returned[i + 1]
        /\ {returned[i] : i \in 1..Len(returned)} =
              IF selected[0] \/ CheckedSet = {} THEN 0..(n_items - 1) ELSE CheckedSet
        /\ n_items >= 1 => returned # <<>>

\* Returned with the first and the third of three items checked.
C13_Witness ==
    /\ mpc = "returned"
    /\ n_items = 3
    /\ ~selected[0]
    /\ returned = <<0, 2>>

\* Returned with nothing checked: every index came back.
C13_WitnessNothingChecked ==
    /\ mpc = "returned"
    /\ n_items = 3
    /\ CheckedSet = {}
    /\ returned = <<0, 1, 2>>

\* ------------------------------------------------------------------ C14
\* C14: with at least one item, whatever keys were pressed, the cursor is
\* within 0..len(items) and the All box is checked exactly when every item
\* is checked.
C14_CursorAndAllBox ==
    n_items >= 1 =>
        /\ cursor \in 0..n_items
        /\ selected[0] <=> \A i \in 1..n_items : selected[i]

\* The cursor is on the last of several items, the last key toggled it, and
\* that checked the All box.
C14_Witness ==
    /\ mpc = "menu"
    /\ n_items >= 2
    /\ cursor = n_items
    /\ key \in ToggleKeys
    /\ selected[0]

\* ------------------------------------------------------------ login loop
\* Login calls of one run.
MaxAttempts == 3

\* What the user can type at the prompts (input().strip() may be empty).
Usernames == {"u1", "u2"}
Passwords == {"", "pw"}
Codes == {"", "c1", "c2"}

\* `not password`
Falsy(v) == v = None \/ v = ""

\* The iteration of the loop that ends with the given outcome of
\* WealthsimpleAPI.login: the password is asked for when none is kept, login
\* is called with the username, the password and the TOTP code kept, and
\* the outcome decides what is kept for the next iteration.  typed_code and
\* typed_username are what the user types in the exception handlers.
Iteration(outcome, typed_password, typed_code, typed_username) ==
    LET asked == Falsy(password)
        used == IF asked THEN typed_password ELSE password
    IN /\ lpc = "loop"
       /\ attempts < MaxAttempts
       /\ attempts' = attempts + 1
       /\ previous' = attempt
       /\ attempt' = [made |-> TRUE, username |-> username, password |-> used,
                      otp |-> otp_answer, asked_password |-> asked,
                      outcome |-> outcome,
                      typed_code |-> typed_code, typed_username |-> typed_username]
       /\ password' = IF outcome = "LoginFailedException" THEN None ELSE used
       /\ otp_answer' = CASE outcome = "OTPRequiredException" -> typed_code
                          [] outcome = "LoginFailedException" -> None
                          [] OTHER -> otp_answer
       /\ username' = IF outcome = "LoginFailedException"
                      THEN typed_username ELSE username
       /\ lpc' = CASE outcome = "returned" -> "after_loop"
                   [] outcome = "other exception" -> "raised"
                   [] OTHER -> "loop"
       /\ UNCHANGED <<coreVars, convVars, menuVars>>

InitLogin ==
    /\ CoreIdle /\ ConvIdle /\ MenuIdle
    /\ username \in Usernames
    /\ password = None
    /\ otp_answer = None
    /\ lpc = "loop"
    /\ attempts = 0
    /\ attempt = NoAttempt
    /\ previous = NoAttempt

\* login returns: break.
LoginReturns ==
    \E typed \in Passwords : Iteration("returned", typed, None, None)

\* except OTPRequiredException: the TOTP code is asked for.
LoginNeedsOtp ==
    \E typed \in Passwords, code \in Codes :
        Iteration("OTPRequiredException", typed, code, None)

\* A LoginFailedException handler that drops the password and keeps the
\* TOTP code.
LoginFails_KeepsCode ==
    \E typed \in Passwords, name \in Usernames :
        LET asked == Falsy(password)
            used == IF asked THEN typed ELSE password
        IN /\ lpc = "loop"
           /\ attempts < MaxAttempts
           /\ attempts' = attempts + 1
           /\ previous' = attempt
           /\ attempt' = [made |-> TRUE, username |-> username, password |-> used,
                          otp |-> otp_answer, asked_password |-> asked,
                          outcome |-> "LoginFailedException",
                          typed_code |-> None, typed_username |-> name]
           /\ password' = None
           /\ username' = name
           /\ UNCHANGED <<otp_answer, lpc, coreVars, convVars, menuVars>>

\* except LoginFailedException: the username is asked for, the password and
\* the TOTP code are dropped.
LoginFails ==
    \E typed \in Passwords, name \in Usernames :
        Iteration("LoginFailedException", typed, None, name)

\* login raises anything else: nothing catches it, the function is left.
LoginRaises ==
    \E typed \in Passwords : Iteration("other exception", typed, None, None)

NextLogin == LoginReturns \/ LoginNeedsOtp \/ LoginFails \/ LoginRaises

SpecLogin == InitLogin /\ [][NextLogin]_vars

\* ------------------------------------------------------------------ C15
\* Two iterations in a row have been made.
TwoAttempts == attempt.made /\ previous.made

\* After a LoginFailedException: nothing is kept, the next login call uses
\* the username typed in the handler, a password asked for anew and no TOTP
\* code.
AfterLoginFailed ==
    /\ (attempt.made /\ attempt.outcome = "LoginFailedException") =>
          /\ password = None
          /\ otp_answer = None
          /\ username = attempt.typed_username
    /\ (TwoAttempts /\ previous.outcome = "LoginFailedException") =>
          /\ attempt.username = previous.typed_username
          /\ attempt.asked_password
          /\ attempt.otp = None

\* The code after the loop is reached only from a login call that returned.
LeftAfterReturn ==
    lpc = "after_loop" => attempt.made /\ attempt.outcome = "returned"

\* C15, as stated: after an OTPRequiredException the next login call has the
\* same username and the same password, not asked for again, and the TOTP
\* code just typed; after a LoginFailedException password and code are
\* dropped and username and password asked for; the loop is left only after
\* a login call that returned.
C15_RetryKeepsPassword ==
    /\ (TwoAttempts /\ previous.outcome = "OTPRequiredException") =>
          /\ attempt.username = previous.username
          /\ attempt.password = previous.password
          /\ ~attempt.asked_password
          /\ attempt.otp = previous.typed_code
    /\ AfterLoginFailed
    /\ LeftAfterReturn

\* C15, amended: after an OTPRequiredException the next login call has the
\* same username and the TOTP code just typed, and the same password, not
\* asked for again, when that password is not empty; an empty password is
\* asked for again.  The rest as stated.
C15_RetryKeepsNonEmptyPassword ==
    /\ (TwoAttempts /\ previous.outcome = "OTPRequiredException") =>
          /\ attempt.username = previous.username
          /\ attempt.otp = previous.typed_code
          /\ attempt.asked_password <=> previous.password = ""
          /\ previous.password # "" => attempt.password = previous.password
    /\ AfterLoginFailed
    /\ LeftAfterReturn

\* The third login call ended the loop: the call before it asked for a
\* password, had no TOTP code and raised OTPRequiredException, and the last
\* call used the kept password, not asked for again, and the code typed.
C15_Witness ==
    /\ lpc = "after_loop"
    /\ attempts = 3
    /\ TwoAttempts
    /\ previous.outcome = "OTPRequiredException"
    /\ previous.asked_password
    /\ previous.otp = None
    /\ attempt.password = "pw"
    /\ attempt.otp = "c1"
    /\ ~attempt.asked_password
    /\ attempt.outcome = "returned"

====
